---- MODULE Spec2Model ----
(***************************************************************************)
(* Model of the operator-run deployment and teardown scripts under INFRA/. *)
(* One operator runs one script at a time against a cloud account.  The    *)
(* account's contents (cloud, net), the state files under States/ and the  *)
(* position of the running script are the state.  Every SDK call may raise *)
(* botocore's ClientError; calls whose precondition the account does not   *)
(* satisfy (update or delete of a group that does not exist, create of a   *)
(* name that is taken) always raise it.                                    *)
(***************************************************************************)
EXTENDS Integers, Sequences, FiniteSets, TLC

\* ------------------------------------------------------------------ bounds
\* Number of script runs the operator starts in one behaviour: of the backend
\* scripts alone, of the network scripts alone, of all scripts together.
MaxBackendRuns == 2
MaxVpcRuns == 2
MaxRuns == 2
MaxInvocations == 2
MaxLambdaDeploys == 2
MaxDestroyRuns == 2

\* ------------------------------------------------------- program constants
max_attempts == 30
DesiredCapacity == 2

\* Resource names, as the hyphen-separated words of the string literal.
ASG_NAME == <<"MERN", "Ubuntu", "Backend", "ASG">>
POLICY_NAME == <<"MERN", "Ubuntu", "Backend", "Scale", "Up">>
TEMPLATE_NAME == <<"MERN", "Ubuntu", "Backend", "Template">>
ALB_NAME == <<"MERN", "Ubuntu", "Backend", "ALB">>
HELLO_TG == <<"MERN", "Ubuntu", "Hello", "TG">>
PROFILE_TG == <<"MERN", "Ubuntu", "Profile", "TG">>
DEPLOY_ROLE_NAME == <<"Ubuntu", "ECR", "CloudWatch", "Role">>
DESTROY_ROLE_NAME == <<"EC2", "ECR", "CloudWatch", "Role">>

\* State files.
DefaultBackendFile == "States/Backend-Deploy-Info.json"
UbuntuBackendFile == "States/Ubuntu-Backend-Deploy-Info.json"
VpcFile == "States/VPC-Deploy-Info.json"
FileNames == {DefaultBackendFile, UbuntuBackendFile, VpcFile}
NoFile == [kind |-> "absent"]

\* ----------------------------------------------------------------- helpers
Res(k, n) == [kind |-> k, name |-> n]

\* Python's  'MERN' in name  on the names of this account.
Contains(name, word) == \E i \in 1..Len(name) : name[i] = word

Range(s) == {s[i] : i \in 1..Len(s)}

RECURSIVE SetToSeq(_)
SetToSeq(S) == IF S = {} THEN <<>>
               ELSE LET x == CHOOSE y \in S : TRUE IN <<x>> \o SetToSeq(S \ {x})

Names(cl, k) == {r.name : r \in {x \in cl : x.kind = k}}

Ret(cl, cs, rv) == [cloud |-> cl, calls |-> cs, ret |-> rv]

\* ------------------------------------------------- backend deployment steps
\* create_instance_role: chk is the outcome of get_role, f the first of the
\* five modifying calls that raises (0: none).
create_instance_role(cl, chk, f) ==
  LET role == Res("role", DEPLOY_ROLE_NAME)
      prof == Res("profile", DEPLOY_ROLE_NAME)
      link == Res("profile_role", DEPLOY_ROLE_NAME)
  IN
  IF role \in cl /\ chk THEN Ret(cl, <<>>, TRUE)
  ELSE IF role \in cl \/ f = 1 THEN Ret(cl, <<"create_role">>, FALSE)
  ELSE LET c1 == cl \cup {role} IN
  IF f = 2 THEN Ret(c1, <<"create_role", "attach_role_policy">>, FALSE)
  ELSE IF f = 3
    THEN Ret(c1, <<"create_role", "attach_role_policy", "attach_role_policy">>, FALSE)
  ELSE LET pre == <<"create_role", "attach_role_policy", "attach_role_policy",
                    "create_instance_profile">> IN
  IF prof \in cl THEN Ret(c1, pre, TRUE)
  ELSE IF f = 4 THEN Ret(c1, pre, FALSE)
  ELSE IF f = 5
    THEN Ret(c1 \cup {prof}, Append(pre, "add_role_to_instance_profile"), FALSE)
  ELSE Ret(c1 \cup {prof, link}, Append(pre, "add_role_to_instance_profile"), TRUE)

\* create_launch_template: chk is the outcome of the first
\* describe_launch_templates, f = 1 when create_launch_template raises for a
\* reason other than the name being taken, chk2 the outcome of the second
\* describe.
create_launch_template_mut(cl, chk, f, chk2) ==
  LET lt == Res("lt", TEMPLATE_NAME) IN
  IF lt \in cl THEN
       IF chk2 THEN Ret(cl, <<"create_launch_template">>, TRUE)
       ELSE Ret(cl, <<"create_launch_template">>, FALSE)
  ELSE IF f = 1 THEN Ret(cl, <<"create_launch_template">>, FALSE)
  ELSE Ret(cl \cup {lt}, <<"create_launch_template">>, TRUE)

create_launch_template(cl, chk, f, chk2) ==
  LET lt == Res("lt", TEMPLATE_NAME) IN
  IF lt \in cl /\ chk THEN Ret(cl, <<>>, TRUE)
  ELSE IF lt \in cl THEN
       IF chk2 THEN Ret(cl, <<"create_launch_template">>, TRUE)
       ELSE Ret(cl, <<"create_launch_template">>, FALSE)
  ELSE IF f = 1 THEN Ret(cl, <<"create_launch_template">>, FALSE)
  ELSE Ret(cl \cup {lt}, <<"create_launch_template">>, TRUE)

\* create_application_load_balancer: chk is the outcome of
\* describe_load_balancers, chk2 of describe_target_groups, f the first of
\* create_load_balancer, create_target_group (hello), create_target_group
\* (profile), create_listener, create_rule that raises an error the function
\* does not absorb (0: none).  The result's tgs is the target_groups dict.
AlbRet(cl, cs, rv, tgs) == [cloud |-> cl, calls |-> cs, ret |-> rv, tgs |-> tgs]

create_application_load_balancer(cl, chk, chk2, f) ==
  LET lb == Res("lb", ALB_NAME)
      h == Res("tg", HELLO_TG)
      p == Res("tg", PROFILE_TG)
      li == Res("listener", ALB_NAME)
      ru == Res("rule", ALB_NAME)
      c1 == cl \cup {lb}
      c2 == c1 \cup {h}
      c3 == c2 \cup {p}
      c4 == c3 \cup {li}
      c5 == c4 \cup {ru}
      all == <<"create_load_balancer", "create_target_group", "create_target_group",
               "create_listener", "create_rule">>
  IN
  IF lb \in cl /\ chk
    THEN AlbRet(cl, <<>>, TRUE,
                IF chk2 THEN Names(cl, "tg") \cap {HELLO_TG, PROFILE_TG} ELSE {})
  ELSE IF f = 1 THEN AlbRet(cl, SubSeq(all, 1, 1), FALSE, {})
  ELSE IF f = 2 THEN AlbRet(c1, SubSeq(all, 1, 2), FALSE, {})
  ELSE IF f = 3 THEN AlbRet(c2, SubSeq(all, 1, 3), FALSE, {})
  ELSE IF f = 4 THEN AlbRet(c3, SubSeq(all, 1, 4), FALSE, {})
  ELSE IF f = 5 THEN AlbRet(c4, all, FALSE, {})
  ELSE AlbRet(c5, all, TRUE, {HELLO_TG, PROFILE_TG})

\* create_auto_scaling_group: chk is the outcome of
\* describe_auto_scaling_groups, f = 1 when the first modifying call raises
\* (update_auto_scaling_group or create_auto_scaling_group), f = 2 when the
\* second does (start_instance_refresh or put_scaling_policy).
create_auto_scaling_group(cl, chk, f) ==
  LET asg == Res("asg", ASG_NAME)
      pol == Res("policy", POLICY_NAME)
  IN
  IF asg \in cl /\ chk THEN
       IF f = 1 THEN Ret(cl, <<"update_asg_template">>, TRUE)
       ELSE Ret(cl, <<"update_asg_template", "start_instance_refresh">>, TRUE)
  ELSE IF asg \in cl THEN Ret(cl, <<"create_auto_scaling_group">>, TRUE)
  ELSE IF f = 1 THEN Ret(cl, <<"create_auto_scaling_group">>, FALSE)
  ELSE IF f = 2
    THEN Ret(cl \cup {asg}, <<"create_auto_scaling_group", "put_scaling_policy">>, TRUE)
  ELSE Ret(cl \cup {asg, pol}, <<"create_auto_scaling_group", "put_scaling_policy">>, TRUE)

\* --------------------------------------------------- backend teardown steps
NoResources == [found |-> FALSE, asg_names |-> <<>>, launch_templates |-> <<>>,
                load_balancers |-> <<>>, target_groups |-> <<>>, iam_roles |-> <<>>]

\* discover_backend_resources: ok is FALSE when one of the four describe calls
\* raises.
discover_backend_resources(cl, ok) ==
  IF ~ok THEN NoResources
  ELSE [found |-> TRUE,
        asg_names |-> SetToSeq({n \in Names(cl, "asg") :
                                  Contains(n, "MERN") \/ Contains(n, "Backend")}),
        launch_templates |-> SetToSeq({n \in Names(cl, "lt") :
                                  Contains(n, "MERN") \/ Contains(n, "Backend")}),
        load_balancers |-> SetToSeq({n \in Names(cl, "lb") :
                                  Contains(n, "MERN") \/ Contains(n, "Backend")}),
        target_groups |-> SetToSeq({n \in Names(cl, "tg") : Contains(n, "MERN")}),
        iam_roles |-> IF Res("role", DESTROY_ROLE_NAME) \in cl
                        THEN <<DESTROY_ROLE_NAME>> ELSE <<>>]

\* The resources dict built from the loaded deployment file.
resources_from_file(info) ==
  [found |-> TRUE,
   asg_names |-> <<info.asg_name>>,
   launch_templates |-> <<info.template_id>>,
   load_balancers |-> <<info.alb_arn>>,
   target_groups |-> SetToSeq(info.target_groups),
   iam_roles |-> <<DESTROY_ROLE_NAME>>]

\* First position of a list at which a per-item call raises: position f when
\* the environment makes it raise, or the first item the account refuses.
FirstFailure(names, f, refused) ==
  LET bad == {i \in 1..Len(names) : i = f \/ names[i] \in refused}
  IN IF bad = {} THEN 0 ELSE CHOOSE i \in bad : \A j \in bad : i <= j

Repeat(call, n) == [i \in 1..n |-> call]

\* A loop that issues one delete call per listed item inside one try block;
\* removed[n] is what the account loses when item n is deleted.
DeleteEach(cl, names, f, call, refused, removed) ==
  LET ff == FirstFailure(names, f, refused)
      done == IF ff = 0 THEN Len(names) ELSE ff - 1
      gone == UNION {removed[names[i]] : i \in 1..done}
  IN Ret(cl \ gone, Repeat(call, IF ff = 0 THEN Len(names) ELSE ff), ff = 0)

\* delete_load_balancers: deleting a load balancer removes its listener and
\* the listener's rule.
delete_load_balancers(cl, lbs, f) ==
  LET removed == [n \in Range(lbs) |-> {Res("lb", n), Res("listener", n), Res("rule", n)}]
  IN DeleteEach(cl, lbs, f, "delete_load_balancer", {}, removed)

\* delete_target_groups: a target group a listener or rule still forwards to
\* cannot be deleted.
delete_target_groups(cl, tgs, f) ==
  LET refused == {n \in Range(tgs) : \/ n = HELLO_TG /\ Res("listener", ALB_NAME) \in cl
                                     \/ n = PROFILE_TG /\ Res("rule", ALB_NAME) \in cl}
      removed == [n \in Range(tgs) |-> {Res("tg", n)}]
  IN DeleteEach(cl, tgs, f, "delete_target_group", refused, removed)

\* delete_launch_templates: a launch template that does not exist cannot be
\* deleted.
delete_launch_templates(cl, lts, f) ==
  LET refused == {n \in Range(lts) : Res("lt", n) \notin cl}
      removed == [n \in Range(lts) |-> {Res("lt", n)}]
  IN DeleteEach(cl, lts, f, "delete_launch_template", refused, removed)

\* delete_iam_roles for the one role name the teardown passes.  lp, dp, rp, pf
\* are the outcomes of list_instance_profiles_for_role, of the policy
\* detachment, of remove_role_from_instance_profile and of
\* delete_instance_profile; dr is what delete_role does: "ok", "conflict_ok"
\* (DeleteConflict, second attempt succeeds), "conflict_fail" or "error".
delete_iam_roles(cl, roles, lp, dp, rp, pf, dr) ==
  IF roles = <<>> THEN Ret(cl, <<>>, TRUE)
  ELSE
  LET r == roles[1]
      role == Res("role", r)
      prof == Res("profile", r)
      link == Res("profile_role", r)
      listed == role \in cl /\ lp /\ link \in cl
      k1 == IF role \in cl /\ dp THEN <<"detach_role_policy">> ELSE <<>>
      k2 == IF listed THEN <<"remove_role_from_instance_profile">> ELSE <<>>
      c2 == IF listed /\ rp THEN cl \ {link} ELSE cl
      k3 == IF listed /\ link \notin c2 THEN <<"delete_instance_profile">> ELSE <<>>
      c3 == IF listed /\ link \notin c2 /\ pf THEN c2 \ {prof} ELSE c2
      free == role \in c3 /\ link \notin c3
      k4 == IF (free /\ dr \in {"ok", "error"}) \/ role \notin c3
              THEN <<"delete_role">> ELSE <<"delete_role", "delete_role">>
      c4 == IF free /\ dr \in {"ok", "conflict_ok"} THEN c3 \ {role} ELSE c3
  IN Ret(c4, k1 \o k2 \o k3 \o k4, TRUE)

\* One pass of the drain loop of terminate_auto_scaling_groups.  out is what
\* describe_auto_scaling_groups does: "raise", "gone" (no such group) or
\* "count" with n instances left.  The result is the attempt counter and
\* whether the loop is left.
PollStep_mut(attempt, out, n) ==
  IF out = "raise" THEN [attempt |-> attempt, brk |-> FALSE]
  ELSE IF out = "gone" \/ n = 0 THEN [attempt |-> attempt, brk |-> TRUE]
  ELSE [attempt |-> attempt + 1, brk |-> attempt + 1 >= max_attempts]

PollStep(attempt, out, n) ==
  IF out = "raise" THEN [attempt |-> attempt + 1, brk |-> attempt + 1 >= max_attempts]
  ELSE IF out = "gone" \/ n = 0 THEN [attempt |-> attempt, brk |-> TRUE]
  ELSE [attempt |-> attempt + 1, brk |-> attempt + 1 >= max_attempts]

\* The ordered step list of destroy_backend_infrastructure.
BackendSteps_mut ==
  <<"Load Balancers", "Target Groups", "Launch Templates", "Auto Scaling Groups",
    "IAM Roles">>

BackendSteps ==
  <<"Auto Scaling Groups", "Load Balancers", "Target Groups", "Launch Templates",
    "IAM Roles">>

\* ------------------------------------------------------------------- state
VARIABLES
  pc,        \* position of the running script, "idle" between runs
  prog,      \* the script that is running or ran last
  runs,      \* number of runs started
  budget,    \* number of runs the operator starts at most
  cloud,     \* compute, load-balancing and identity resources of the account
  instances, \* instances in service in the Auto Scaling Group
  lbVpc,     \* VpcId of the load balancer (0: none)
  asgVpc,    \* VPC of the subnets the Auto Scaling Group launches into
  net,       \* network resources of the account
  files,     \* contents of the state files under States/
  files0,    \* the state files as they were when the current run started
  calls,     \* modifying SDK calls issued by the current (or last) run
  trace,     \* steps of the teardown step list run so far, with what they returned
  confirmation, \* what the operator typed at the prompt of the current (or
             \* last) run; NotAsked when input() was not called
  check_errors, \* existence checks of the current (or last) run that raised
  warnings,  \* release_address, delete_policy and os.remove errors the current (or last)
             \* run reported and ignored
  result,    \* what the last finished run returned
  hist,      \* the finished runs, oldest first
  loc        \* local variables and object fields of the running script

vars == <<pc, prog, runs, budget, cloud, instances, lbVpc, asgVpc, net, files, files0,
          calls, trace, confirmation, check_errors, warnings, result, hist, loc>>

\* What the operator may type at the confirmation prompt.
Inputs == {"DELETE", "delete", "yes", ""}
NotAsked == "<no prompt>"

NoNetResources == [found |-> FALSE, instances |-> 0, nat_gateways |-> <<>>,
                   internet_gateways |-> <<>>, route_tables |-> <<>>,
                   security_groups |-> <<>>, subnets |-> <<>>, endpoints |-> <<>>]

\* What lambda_handler returned: NoResponse until it returns.
NoResponse == [statusCode |-> 0, body |-> ""]

\* Shell variables of the instance's user-data script and the success marker
\* /var/log/user-data-success.log on the instance's disk.
NoBoot == [i |-> 0, ECR_LOGIN_SUCCESS |-> FALSE, PULL_SUCCESS |-> FALSE,
           COMPOSE_SUCCESS |-> FALSE, success_log |-> FALSE]

NoLoc == [step |-> 0, attempt |-> 0, polls |-> 0, resources |-> NoResources,
          last_poll |-> "", backend_file |-> "", confirm |-> FALSE, vpc_id |-> 0,
          target_groups |-> {}, public_subnets |-> <<>>, private_subnets |-> <<>>,
          internet_gateway_id |-> 0, nat_gateway_id |-> 0, route_tables |-> <<>>,
          vpc_resources |-> NoNetResources, boot |-> NoBoot,
          response |-> NoResponse]

\* An identity role left in the account by the earlier deployment script.
LegacyRole == {Res("role", DESTROY_ROLE_NAME), Res("profile", DESTROY_ROLE_NAME),
               Res("profile_role", DESTROY_ROLE_NAME)}

InitWith(b) ==
  /\ budget = b
  /\ pc = "idle"
  /\ prog = "none"
  /\ runs = 0
  /\ cloud \in {{}, LegacyRole}
  /\ instances = 0
  /\ lbVpc = 0
  /\ asgVpc = 0
  /\ net = {}
  /\ files = [f \in FileNames |-> NoFile]
  /\ files0 = files
  /\ calls = <<>>
  /\ trace = <<>>
  /\ confirmation = NotAsked
  /\ check_errors = {}
  /\ warnings = {}
  /\ result = "none"
  /\ hist = <<>>
  /\ loc = NoLoc

Init == InitWith(MaxRuns)

\* The operator launches script p.
Launch(p) ==
  /\ pc = "idle"
  /\ runs < budget
  /\ runs' = runs + 1
  /\ UNCHANGED budget
  /\ prog' = p
  /\ calls' = <<>>
  /\ trace' = <<>>
  /\ files0' = files
  /\ warnings' = {}

\* A run starts and reaches its first step.
Start(p, first) ==
  /\ Launch(p)
  /\ pc' = first
  /\ result' = "running"

\* A run ends with return value (or exception) res.
Finish(res) ==
  /\ pc' = "idle"
  /\ result' = res
  /\ hist' = Append(hist, [prog |-> prog, result |-> res, confirm |-> loc.confirm,
                           file |-> loc.backend_file])
  /\ loc' = NoLoc

\* ------------------------------------------- deploy_ubuntu_backend_infrastructure
VpcIds == {r.vpc : r \in {x \in net : x.kind = "vpc"}}

\* The operator starts asg_deployment.py with the infrastructure info of VPC v.
StartBackendDeploy ==
  \E v \in VpcIds \cup {0} :
    /\ Start("asg_deploy", "create_instance_role")
    /\ loc' = [NoLoc EXCEPT !.vpc_id = v]
    /\ confirmation' = NotAsked
    /\ check_errors' = {}
    /\ UNCHANGED <<cloud, instances, lbVpc, asgVpc, net, files, hist>>

CreateInstanceRole ==
  /\ pc = "create_instance_role"
  /\ \E chk \in BOOLEAN, f \in 0..5 :
       LET r == create_instance_role(cloud, chk, f) IN
       /\ cloud' = r.cloud
       /\ check_errors' = IF chk THEN check_errors ELSE check_errors \cup {"get_role"}
       /\ calls' = calls \o r.calls
       /\ IF r.ret
            THEN pc' = "create_launch_template" /\ UNCHANGED <<result, hist, loc>>
            ELSE Finish("False")
  /\ UNCHANGED <<prog, runs, budget, instances, lbVpc, asgVpc, net, files, files0, trace, confirmation, warnings>>

CreateLaunchTemplate ==
  /\ pc = "create_launch_template"
  /\ \E chk \in BOOLEAN, f \in 0..1, chk2 \in BOOLEAN :
       LET r == create_launch_template(cloud, chk, f, chk2) IN
       /\ cloud' = r.cloud
       /\ check_errors' = IF chk THEN check_errors ELSE check_errors \cup {"describe_launch_templates"}
       /\ calls' = calls \o r.calls
       /\ IF r.ret
            THEN pc' = "create_application_load_balancer"
                 /\ UNCHANGED <<result, hist, loc>>
            ELSE Finish("False")
  /\ UNCHANGED <<prog, runs, budget, instances, lbVpc, asgVpc, net, files, files0, trace, confirmation, warnings>>

CreateApplicationLoadBalancer ==
  /\ pc = "create_application_load_balancer"
  /\ \E chk \in BOOLEAN, chk2 \in BOOLEAN, f \in 0..5 :
       LET r == create_application_load_balancer(cloud, chk, chk2, f)
           lb == Res("lb", ALB_NAME)
       IN
       /\ cloud' = r.cloud
       /\ check_errors' = IF chk THEN check_errors ELSE check_errors \cup {"describe_load_balancers"}
       /\ calls' = calls \o r.calls
       /\ lbVpc' = IF lb \notin cloud /\ lb \in r.cloud THEN loc.vpc_id ELSE lbVpc
       /\ IF r.ret
            THEN /\ pc' = "create_auto_scaling_group"
                 /\ loc' = [loc EXCEPT !.target_groups = r.tgs]
                 /\ UNCHANGED <<result, hist>>
            ELSE Finish("False")
  /\ UNCHANGED <<prog, runs, budget, instances, asgVpc, net, files, files0, trace, confirmation, warnings>>

\* The deployment file written at the end of a successful deployment.
deployment_info(tgs) ==
  [kind |-> "backend", template_id |-> TEMPLATE_NAME, alb_arn |-> ALB_NAME,
   target_groups |-> tgs, asg_name |-> ASG_NAME]

CreateAutoScalingGroup ==
  /\ pc = "create_auto_scaling_group"
  /\ \E chk \in BOOLEAN, f \in 0..2 :
       LET r == create_auto_scaling_group(cloud, chk, f)
           asg == Res("asg", ASG_NAME)
       IN
       /\ cloud' = r.cloud
       /\ check_errors' = IF chk THEN check_errors ELSE check_errors \cup {"describe_auto_scaling_groups"}
       /\ calls' = calls \o r.calls
       /\ instances' = IF asg \notin cloud /\ asg \in r.cloud
                         THEN DesiredCapacity ELSE instances
       /\ asgVpc' = IF asg \notin cloud /\ asg \in r.cloud THEN loc.vpc_id ELSE asgVpc
       /\ IF r.ret
            THEN /\ files' = [files EXCEPT
                                ![UbuntuBackendFile] = deployment_info(loc.target_groups)]
                 /\ Finish("True")
            ELSE /\ Finish("False")
                 /\ UNCHANGED files
  /\ UNCHANGED <<prog, runs, budget, lbVpc, net, files0, trace, confirmation, warnings>>

\* ------------------------------------------------ destroy_backend_infrastructure
\* The  for step_name, step_function in steps  loop, after the current step
\* returned ok: go on to the next step, to the clean-up, or return False.
StepReturn_mut(ok, steps) ==
  /\ trace' = Append(trace, [step |-> steps[loc.step],
                              ret |-> IF ok THEN "True" ELSE "False",
                              polled |-> loc.polls > 0])
  /\ UNCHANGED <<result, hist>>
  /\ IF loc.step < Len(steps)
       THEN pc' = "step"
            /\ loc' = [loc EXCEPT !.step = loc.step + 1, !.attempt = 0, !.polls = 0,
                                  !.last_poll = ""]
       ELSE pc' = "cleanup"
            /\ loc' = [loc EXCEPT !.attempt = 0, !.polls = 0, !.last_poll = ""]

StepReturn(ok, steps) ==
  /\ trace' = Append(trace, [step |-> steps[loc.step],
                              ret |-> IF ok THEN "True" ELSE "False",
                              polled |-> loc.polls > 0])
  /\ IF ~ok THEN Finish("False")
     ELSE /\ UNCHANGED <<result, hist>>
          /\ IF loc.step < Len(steps)
               THEN pc' = "step"
                    /\ loc' = [loc EXCEPT !.step = loc.step + 1, !.attempt = 0, !.polls = 0,
                                          !.last_poll = ""]
               ELSE pc' = "cleanup"
                    /\ loc' = [loc EXCEPT !.attempt = 0, !.polls = 0, !.last_poll = ""]

\* The confirmation prompt of both destroyers: with confirm set, anything but
\* the exact text DELETE cancels the teardown.
Cancelled_mut(confirm, text) == confirm /\ text \notin {"DELETE", "delete"}

Cancelled(confirm, text) == confirm /\ text # "DELETE"

\* asg_destroy.py main: load_backend_info, then destroy_backend_infrastructure
\* up to the step list: the confirmation prompt and the resource lookup.
StartBackendDestroy ==
  \E file \in {DefaultBackendFile, UbuntuBackendFile}, force \in BOOLEAN,
     text \in Inputs, ok \in BOOLEAN :
    LET backend_info == files[file]
        confirm == ~force
        resources == IF backend_info.kind = "backend"
                       THEN resources_from_file(backend_info)
                       ELSE discover_backend_resources(cloud, ok)
        here == [NoLoc EXCEPT !.backend_file = file, !.confirm = confirm]
    IN
    /\ Launch("asg_destroy")
    /\ confirmation' = IF confirm THEN text ELSE NotAsked
    /\ check_errors' = {}
    /\ IF Cancelled(confirm, text) \/ ~resources.found
         THEN /\ pc' = "idle"
              /\ result' = "False"
              /\ hist' = Append(hist, [prog |-> "asg_destroy", result |-> "False",
                                       confirm |-> confirm, file |-> file])
              /\ loc' = NoLoc
         ELSE /\ pc' = "step"
              /\ result' = "running"
              /\ loc' = [here EXCEPT !.resources = resources, !.step = 1]
              /\ UNCHANGED hist
    /\ UNCHANGED <<cloud, instances, lbVpc, asgVpc, net, files>>

BackendStep(name) ==
  /\ pc = "step"
  /\ prog = "asg_destroy"
  /\ BackendSteps[loc.step] = name

\* Whether terminate_auto_scaling_groups can get past its first call: the list
\* is empty, or update_auto_scaling_group finds the group it names (the call
\* raises ClientError for a group that does not exist, and the method returns
\* False).
can_scale_down(cl, asg_names) ==
  asg_names = <<>> \/ Res("asg", asg_names[1]) \in cl

\* terminate_auto_scaling_groups up to the drain loop: capacity set to zero.
ScaleDownAutoScalingGroup ==
  /\ BackendStep("Auto Scaling Groups")
  /\ IF loc.resources.asg_names = <<>>
       THEN /\ StepReturn(TRUE, BackendSteps)
            /\ UNCHANGED calls
       ELSE \E ok \in BOOLEAN :
              /\ calls' = Append(calls, "update_asg_zero")
              /\ IF ok /\ can_scale_down(cloud, loc.resources.asg_names)
                   THEN /\ pc' = "drain"
                        /\ loc' = [loc EXCEPT !.attempt = 0, !.polls = 0]
                        /\ UNCHANGED <<result, hist, trace>>
                   ELSE StepReturn(FALSE, BackendSteps)
  /\ UNCHANGED <<prog, runs, budget, cloud, instances, lbVpc, asgVpc, net, files, files0, confirmation, check_errors, warnings>>

\* One describe_auto_scaling_groups of the drain loop.  The group's instances
\* terminate while the script waits; someone else may delete the group.
PollDrain ==
  /\ pc = "drain"
  /\ \E out \in {"raise", "gone", "count"}, n \in 0..instances :
       LET r == PollStep(loc.attempt, out, n)
           name == loc.resources.asg_names[1]
       IN
       /\ out = "raise" => n = instances
       /\ out = "gone" => n = 0
       /\ instances' = n
       /\ cloud' = IF out = "gone"
                     THEN cloud \ {Res("asg", name), Res("policy", POLICY_NAME)}
                     ELSE cloud
       /\ loc' = [loc EXCEPT !.attempt = r.attempt, !.polls = loc.polls + 1,
                             !.last_poll = IF out = "count" /\ n = 0 THEN "zero" ELSE out]
       /\ pc' = IF r.brk THEN "delete_asg" ELSE "drain"
  /\ UNCHANGED <<prog, runs, budget, lbVpc, asgVpc, net, files, files0, calls, trace, confirmation,
                 check_errors,
                 result, hist, warnings>>

\* The rest of terminate_auto_scaling_groups for one group: describe_policies
\* and delete_policy for each policy listed, a ClientError of either printed
\* as a warning, then delete_auto_scaling_group with ForceDelete.  pOk, dpOk
\* and dOk say whether the three calls succeed.
delete_policies_and_group_mut(cl, name, pOk, dpOk, dOk) ==
  LET asg == Res("asg", name)
      pol == Res("policy", POLICY_NAME)
      listed == pOk /\ asg \in cl /\ pol \in cl
      c1 == IF listed /\ dpOk THEN cl \ {pol} ELSE cl
      k1 == IF listed THEN <<"delete_policy">> ELSE <<>>
      warned == ~pOk \/ (listed /\ ~dpOk)
      deleted == dOk /\ asg \in cl
  IN IF warned THEN [cloud |-> c1, calls |-> k1, ret |-> FALSE, warned |-> warned]
     ELSE [cloud |-> IF deleted THEN c1 \ {asg, pol} ELSE c1,
           calls |-> k1 \o <<"delete_auto_scaling_group">>,
           ret |-> deleted, warned |-> warned]

delete_policies_and_group(cl, name, pOk, dpOk, dOk) ==
  LET asg == Res("asg", name)
      pol == Res("policy", POLICY_NAME)
      listed == pOk /\ asg \in cl /\ pol \in cl
      c1 == IF listed /\ dpOk THEN cl \ {pol} ELSE cl
      k1 == IF listed THEN <<"delete_policy">> ELSE <<>>
      warned == ~pOk \/ (listed /\ ~dpOk)
      deleted == dOk /\ asg \in cl
  IN [cloud |-> IF deleted THEN c1 \ {asg, pol} ELSE c1,
      calls |-> k1 \o <<"delete_auto_scaling_group">>,
      ret |-> deleted, warned |-> warned]

\* The rest of terminate_auto_scaling_groups: the scaling policies are
\* deleted (errors absorbed), then the group is force-deleted.
DeleteAutoScalingGroup ==
  /\ pc = "delete_asg"
  /\ \E pOk \in BOOLEAN, dpOk \in BOOLEAN, dOk \in BOOLEAN :
       LET r == delete_policies_and_group(cloud, loc.resources.asg_names[1],
                                          pOk, dpOk, dOk)
       IN
       /\ calls' = calls \o r.calls
       /\ cloud' = r.cloud
       /\ instances' = IF r.ret THEN 0 ELSE instances
       /\ warnings' = IF r.warned THEN warnings \cup {"delete_policy"} ELSE warnings
       /\ StepReturn(r.ret, BackendSteps)
  /\ UNCHANGED <<prog, runs, budget, lbVpc, asgVpc, net, files, files0, confirmation, check_errors>>

DeleteLoadBalancers ==
  /\ BackendStep("Load Balancers")
  /\ \E f \in 0..Len(loc.resources.load_balancers) :
       LET r == delete_load_balancers(cloud, loc.resources.load_balancers, f) IN
       /\ cloud' = r.cloud
       /\ calls' = calls \o r.calls
       /\ lbVpc' = IF Names(r.cloud, "lb") = {} THEN 0 ELSE lbVpc
       /\ StepReturn(r.ret, BackendSteps)
  /\ UNCHANGED <<prog, runs, budget, instances, asgVpc, net, files, files0, confirmation, check_errors, warnings>>

DeleteTargetGroups ==
  /\ BackendStep("Target Groups")
  /\ \E f \in 0..Len(loc.resources.target_groups) :
       LET r == delete_target_groups(cloud, loc.resources.target_groups, f) IN
       /\ cloud' = r.cloud
       /\ calls' = calls \o r.calls
       /\ StepReturn(r.ret, BackendSteps)
  /\ UNCHANGED <<prog, runs, budget, instances, lbVpc, asgVpc, net, files, files0, confirmation, check_errors, warnings>>

DeleteLaunchTemplates ==
  /\ BackendStep("Launch Templates")
  /\ \E f \in 0..Len(loc.resources.launch_templates) :
       LET r == delete_launch_templates(cloud, loc.resources.launch_templates, f) IN
       /\ cloud' = r.cloud
       /\ calls' = calls \o r.calls
       /\ StepReturn(r.ret, BackendSteps)
  /\ UNCHANGED <<prog, runs, budget, instances, lbVpc, asgVpc, net, files, files0, confirmation, check_errors, warnings>>

DeleteIamRoles ==
  /\ BackendStep("IAM Roles")
  /\ \E lp \in BOOLEAN, dp \in BOOLEAN, rp \in BOOLEAN, pf \in BOOLEAN,
        dr \in {"ok", "conflict_ok", "conflict_fail", "error"} :
       LET r == delete_iam_roles(cloud, loc.resources.iam_roles, lp, dp, rp, pf, dr) IN
       /\ cloud' = r.cloud
       /\ calls' = calls \o r.calls
       /\ StepReturn(r.ret, BackendSteps)
  /\ UNCHANGED <<prog, runs, budget, instances, lbVpc, asgVpc, net, files, files0, confirmation, check_errors, warnings>>

\* After the last step: the deployment file is removed if it exists; a
\* failing os.remove is reported and ignored.
RemoveBackendFile ==
  /\ pc = "cleanup"
  /\ prog = "asg_destroy"
  /\ \E rmOk \in BOOLEAN :
       /\ files' = IF rmOk THEN [files EXCEPT ![loc.backend_file] = NoFile] ELSE files
       /\ warnings' = IF ~rmOk /\ files[loc.backend_file] # NoFile
                       THEN warnings \cup {"os.remove"} ELSE warnings
  /\ Finish("True")
  /\ UNCHANGED <<prog, runs, budget, cloud, instances, lbVpc, asgVpc, net, files0, calls, trace,
                 confirmation, check_errors>>

BackendNext ==
  \/ StartBackendDeploy
  \/ CreateInstanceRole
  \/ CreateLaunchTemplate
  \/ CreateApplicationLoadBalancer
  \/ CreateAutoScalingGroup
  \/ StartBackendDestroy
  \/ ScaleDownAutoScalingGroup
  \/ PollDrain
  \/ DeleteAutoScalingGroup
  \/ DeleteLoadBalancers
  \/ DeleteTargetGroups
  \/ DeleteLaunchTemplates
  \/ DeleteIamRoles
  \/ RemoveBackendFile

\* The teardown script run again and again on a deployed backend.
BackendDestroyNext ==
  \/ StartBackendDestroy
  \/ ScaleDownAutoScalingGroup
  \/ PollDrain
  \/ DeleteAutoScalingGroup
  \/ DeleteLoadBalancers
  \/ DeleteTargetGroups
  \/ DeleteLaunchTemplates
  \/ DeleteIamRoles
  \/ RemoveBackendFile

\* What a deployment whose four steps succeeded leaves in the account.
DeployedBackend ==
  {Res("role", DEPLOY_ROLE_NAME), Res("profile", DEPLOY_ROLE_NAME),
   Res("profile_role", DEPLOY_ROLE_NAME), Res("lt", TEMPLATE_NAME),
   Res("lb", ALB_NAME), Res("listener", ALB_NAME), Res("rule", ALB_NAME),
   Res("tg", HELLO_TG), Res("tg", PROFILE_TG), Res("asg", ASG_NAME),
   Res("policy", POLICY_NAME)}

\* The state deploy_ubuntu_backend_infrastructure returns True in: the
\* resources exist, the group's instances are in service and the deployment
\* info is saved.
InitDeployed ==
  /\ budget = MaxDestroyRuns
  /\ pc = "idle"
  /\ prog = "asg_deploy"
  /\ runs = 0
  /\ cloud \in {DeployedBackend, DeployedBackend \cup LegacyRole}
  /\ instances = DesiredCapacity
  /\ lbVpc = 0
  /\ asgVpc = 0
  /\ net = {}
  /\ files = [f \in FileNames |->
                IF f = UbuntuBackendFile
                THEN deployment_info({HELLO_TG, PROFILE_TG}) ELSE NoFile]
  /\ files0 = [f \in FileNames |-> NoFile]
  /\ calls = <<>>
  /\ trace = <<>>
  /\ confirmation = NotAsked
  /\ check_errors = {}
  /\ warnings = {}
  /\ result = "True"
  /\ hist = <<[prog |-> "asg_deploy", result |-> "True", confirm |-> FALSE,
               file |-> ""]>>
  /\ loc = NoLoc

SpecRerun == InitDeployed /\ [][BackendDestroyNext]_vars

\* ------------------------------------------- VPCInfrastructure.deploy_infrastructure
\* A network resource: its kind, the VPC it belongs to and its number there.
NR(k, v, n) == [kind |-> k, vpc |-> v, n |-> n]

\* The subnet_configs list: two public subnets, then two private ones.
SubnetTypes == <<"public", "public", "private", "private">>

\* The sg_configs list.
SgNames == <<"MERN-ALB-SG", "MERN-Frontend-SG", "MERN-Backend-SG">>

get_infrastructure_info(self) ==
  [vpc_id |-> self.vpc_id, public_subnets |-> self.public_subnets,
   private_subnets |-> self.private_subnets,
   internet_gateway_id |-> self.internet_gateway_id,
   nat_gateway_id |-> self.nat_gateway_id, region |-> "ap-south-1"]

\* The operator starts vpc_infrastructure.py.
StartVpcDeploy ==
  /\ Start("vpc_deploy", "create_vpc")
  /\ loc' = NoLoc
  /\ confirmation' = NotAsked
  /\ check_errors' = {}
  /\ UNCHANGED <<cloud, instances, lbVpc, asgVpc, net, files, hist>>

\* create_vpc: f = 1 when create_vpc raises, f = 2 when a later call of the
\* function (modify_vpc_attribute, create_tags) does.  The new VPC's id is the
\* number of the run that creates it.
CreateVpc ==
  /\ pc = "create_vpc"
  /\ \E f \in 0..2 :
       /\ calls' = Append(calls, "create_vpc")
       /\ net' = IF f = 1 THEN net ELSE net \cup {NR("vpc", runs, 1)}
       /\ IF f = 0
            THEN /\ pc' = "create_internet_gateway"
                 /\ loc' = [loc EXCEPT !.vpc_id = runs]
                 /\ UNCHANGED <<result, hist>>
            ELSE Finish("False")
  /\ UNCHANGED <<prog, runs, budget, cloud, instances, lbVpc, asgVpc, files, files0, trace, confirmation, check_errors, warnings>>

\* create_internet_gateway: f = 1 when create_internet_gateway raises, f = 2
\* when create_tags or attach_internet_gateway does (the gateway exists,
\* unattached).
CreateInternetGateway ==
  /\ pc = "create_internet_gateway"
  /\ \E f \in 0..2 :
       /\ calls' = Append(calls, "create_internet_gateway")
       /\ net' = IF f = 1 THEN net
                 ELSE IF f = 2 THEN net \cup {NR("igw_detached", loc.vpc_id, 1)}
                 ELSE net \cup {NR("igw", loc.vpc_id, 1)}
       /\ IF f = 0
            THEN /\ pc' = "create_subnets"
                 /\ loc' = [loc EXCEPT !.internet_gateway_id = 1]
                 /\ UNCHANGED <<result, hist>>
            ELSE Finish("False")
  /\ UNCHANGED <<prog, runs, budget, cloud, instances, lbVpc, asgVpc, files, files0, trace, confirmation, check_errors, warnings>>

\* create_subnets: f = 2i-1 when the i-th create_subnet raises, f = 2i when a
\* later call for the i-th subnet (create_tags, modify_subnet_attribute) does.
CreateSubnets ==
  /\ pc = "create_subnets"
  /\ \E f \in 0..(2 * Len(SubnetTypes)) :
       LET made == IF f = 0 THEN Len(SubnetTypes) ELSE f \div 2
           tried == IF f = 0 THEN Len(SubnetTypes) ELSE (f + 1) \div 2
       IN
       /\ calls' = calls \o Repeat("create_subnet", tried)
       /\ net' = net \cup {NR("subnet", loc.vpc_id, i) : i \in 1..made}
       /\ IF f = 0
            THEN /\ pc' = "create_route_tables"
                 /\ loc' = [loc EXCEPT
                      !.public_subnets = SelectSeq(<<1, 2, 3, 4>>,
                                           LAMBDA i : SubnetTypes[i] = "public"),
                      !.private_subnets = SelectSeq(<<1, 2, 3, 4>>,
                                           LAMBDA i : SubnetTypes[i] = "private")]
                 /\ UNCHANGED <<result, hist>>
            ELSE Finish("False")
  /\ UNCHANGED <<prog, runs, budget, cloud, instances, lbVpc, asgVpc, files, files0, trace, confirmation, check_errors, warnings>>

\* create_route_tables.  f: 1 create_route_table (public) raises; 2 a call
\* between it and create_nat_gateway raises a ClientError; 3 create_nat_gateway
\* raises; 4 the nat_gateway_available waiter raises WaiterError, which the
\* function does not catch; 5 create_route_table (private) raises; 6 a later
\* call raises.
create_route_tables(nt, v, f) ==
  LET pub == NR("rt", v, 1)
      priv == NR("rt", v, 2)
      eip == NR("eip", v, 1)
      nat == NR("nat", v, 1)
      all == <<"create_route_table", "allocate_address", "create_nat_gateway",
               "create_route_table">>
  IN
  IF f = 1 THEN [net |-> nt, calls |-> SubSeq(all, 1, 1), ret |-> "None"]
  ELSE IF f = 2 THEN [net |-> nt \cup {pub}, calls |-> SubSeq(all, 1, 2), ret |-> "None"]
  ELSE IF f = 3
    THEN [net |-> nt \cup {pub, eip}, calls |-> SubSeq(all, 1, 3), ret |-> "None"]
  ELSE IF f = 4
    THEN [net |-> nt \cup {pub, eip, nat}, calls |-> SubSeq(all, 1, 3), ret |-> "raised"]
  ELSE IF f = 5
    THEN [net |-> nt \cup {pub, eip, nat}, calls |-> all, ret |-> "None"]
  ELSE IF f = 6
    THEN [net |-> nt \cup {pub, eip, nat, priv}, calls |-> all, ret |-> "None"]
  ELSE [net |-> nt \cup {pub, eip, nat, priv}, calls |-> all, ret |-> "ok"]

CreateRouteTables ==
  /\ pc = "create_route_tables"
  /\ \E f \in 0..6 :
       LET r == create_route_tables(net, loc.vpc_id, f) IN
       /\ calls' = calls \o r.calls
       /\ net' = r.net
       /\ IF r.ret = "ok"
            THEN /\ pc' = "create_security_groups"
                 /\ loc' = [loc EXCEPT !.nat_gateway_id = 1, !.route_tables = <<1, 2>>]
                 /\ UNCHANGED <<result, hist>>
            ELSE IF r.ret = "raised" THEN Finish("raised")
            ELSE Finish("False")
  /\ UNCHANGED <<prog, runs, budget, cloud, instances, lbVpc, asgVpc, files, files0, trace, confirmation, check_errors, warnings>>

\* create_security_groups, then the rest of deploy_infrastructure.  f = i when
\* the i-th create_security_group raises, f = 4 when a later call does
\* (create_tags of the last group, _add_security_group_rules).  On success the
\* infrastructure file is written.
CreateSecurityGroups ==
  /\ pc = "create_security_groups"
  /\ \E f \in 0..(Len(SgNames) + 1) :
       LET made == IF f = 0 THEN Len(SgNames) ELSE f - 1
           tried == IF f = 0 \/ f > Len(SgNames) THEN Len(SgNames) ELSE f
           security_groups == {i \in 1..Len(SgNames) : TRUE}
           output_data == get_infrastructure_info(loc) @@
                          [kind |-> "vpc", security_groups |-> security_groups,
                           route_tables |-> loc.route_tables]
       IN
       /\ calls' = calls \o Repeat("create_security_group", tried)
       /\ net' = net \cup {NR("sg", loc.vpc_id, i) : i \in 1..made}
       /\ IF f = 0
            THEN /\ files' = [files EXCEPT ![VpcFile] = output_data]
                 /\ Finish("True")
            ELSE /\ UNCHANGED files
                 /\ Finish("False")
  /\ UNCHANGED <<prog, runs, budget, cloud, instances, lbVpc, asgVpc, files0, trace, confirmation, check_errors, warnings>>

\* ---------------------------------------------- VPCDestroyer.destroy_infrastructure
InVpc(nt, k, v) == SetToSeq({r \in nt : r.kind = k /\ r.vpc = v})

\* get_vpc_resources: ok is FALSE when one of the describe calls raises.
get_vpc_resources(nt, v, inst, ok) ==
  IF v = 0 \/ ~ok THEN NoNetResources
  ELSE [found |-> TRUE,
        instances |-> inst,
        nat_gateways |-> InVpc(nt, "nat", v),
        internet_gateways |-> InVpc(nt, "igw", v),
        route_tables |-> InVpc(nt, "rt", v),
        security_groups |-> InVpc(nt, "sg", v),
        subnets |-> InVpc(nt, "subnet", v),
        endpoints |-> <<>>]

\* The ordered step list of destroy_infrastructure.
VpcSteps_mut ==
  <<"EC2 Instances", "Load Balancers", "VPC Endpoints", "NAT Gateways", "Route Tables",
    "Security Groups", "VPC", "Subnets", "Internet Gateways">>

VpcSteps ==
  <<"EC2 Instances", "Load Balancers", "VPC Endpoints", "NAT Gateways", "Route Tables",
    "Security Groups", "Subnets", "Internet Gateways", "VPC">>

\* vpc_destroy.py main: load_infrastructure_info (the file's vpc_id, else the
\* --vpc-id argument), then destroy_infrastructure up to the step list.
StartVpcDestroy ==
  \E arg \in VpcIds \cup {0}, force \in BOOLEAN, text \in Inputs,
     ok \in BOOLEAN :
    LET infrastructure_info == files[VpcFile]
        vpc_id == IF infrastructure_info.kind = "vpc"
                    THEN infrastructure_info.vpc_id ELSE arg
        confirm == ~force
        resources == get_vpc_resources(net, vpc_id,
                        IF asgVpc = vpc_id THEN instances ELSE 0, ok)
        here == [NoLoc EXCEPT !.vpc_id = vpc_id, !.confirm = confirm]
    IN
    /\ Launch("vpc_destroy")
    /\ check_errors' = {}
    /\ IF vpc_id = 0
         THEN /\ confirmation' = NotAsked
              /\ pc' = "idle"
              /\ result' = "NotRun"
              /\ hist' = Append(hist, [prog |-> "vpc_destroy", result |-> "NotRun",
                                       confirm |-> confirm, file |-> ""])
              /\ loc' = NoLoc
         ELSE /\ confirmation' = IF confirm THEN text ELSE NotAsked
              /\ IF Cancelled(confirm, text) \/ ~resources.found
                   THEN /\ pc' = "idle"
                        /\ result' = "False"
                        /\ hist' = Append(hist, [prog |-> "vpc_destroy",
                                                 result |-> "False",
                                                 confirm |-> confirm, file |-> ""])
                        /\ loc' = NoLoc
                   ELSE /\ pc' = "step"
                        /\ result' = "running"
                        /\ loc' = [here EXCEPT !.vpc_resources = resources, !.step = 1]
                        /\ UNCHANGED hist
    /\ UNCHANGED <<cloud, instances, lbVpc, asgVpc, net, files>>

VpcStep(name) ==
  /\ pc = "step"
  /\ prog = "vpc_destroy"
  /\ VpcSteps[loc.step] = name

\* A step ended by an exception the step does not catch.
StepRaise(steps) ==
  /\ trace' = Append(trace, [step |-> steps[loc.step], ret |-> "raised",
                              polled |-> loc.polls > 0])
  /\ Finish("raised")

\* terminate_instances: f = 1 when terminate_instances raises, f = 2 when the
\* instance_terminated waiter raises WaiterError.
TerminateInstances ==
  /\ VpcStep("EC2 Instances")
  /\ IF loc.vpc_resources.instances = 0
       THEN /\ StepReturn(TRUE, VpcSteps)
            /\ UNCHANGED <<calls, instances>>
       ELSE \E f \in 0..2 :
              /\ calls' = Append(calls, "terminate_instances")
              /\ instances' = IF f = 0 THEN 0 ELSE instances
              /\ IF f = 2 THEN StepRaise(VpcSteps) ELSE StepReturn(f = 0, VpcSteps)
  /\ UNCHANGED <<prog, runs, budget, cloud, lbVpc, asgVpc, net, files, files0, confirmation, check_errors, warnings>>

\* delete_load_balancers of the VPC destroyer: every load balancer whose VpcId
\* is the VPC's.  f = 1 when describe_load_balancers raises, f = 2 when
\* delete_load_balancer does.
DeleteVpcLoadBalancers ==
  /\ VpcStep("Load Balancers")
  /\ \E f \in 0..2 :
       LET vpc_load_balancers == IF lbVpc = loc.vpc_id THEN Names(cloud, "lb") ELSE {}
           hit == f # 1 /\ vpc_load_balancers # {}
           gone == UNION {{Res("lb", n), Res("listener", n), Res("rule", n)} :
                            n \in vpc_load_balancers}
       IN
       /\ f = 2 => hit
       /\ calls' = IF hit THEN Append(calls, "delete_load_balancer") ELSE calls
       /\ cloud' = IF hit /\ f = 0 THEN cloud \ gone ELSE cloud
       /\ lbVpc' = IF hit /\ f = 0 THEN 0 ELSE lbVpc
       /\ StepReturn(f = 0, VpcSteps)
  /\ UNCHANGED <<prog, runs, budget, instances, asgVpc, net, files, files0, confirmation, check_errors, warnings>>

\* delete_vpc_endpoints: nothing in this repository creates an endpoint.
DeleteVpcEndpoints ==
  /\ VpcStep("VPC Endpoints")
  /\ loc.vpc_resources.endpoints = <<>>
  /\ StepReturn(TRUE, VpcSteps)
  /\ UNCHANGED <<prog, runs, budget, cloud, instances, lbVpc, asgVpc, net, files, files0, calls,
                 confirmation, check_errors, warnings>>

\* delete_nat_gateways: f = 1 when describe_nat_gateways or delete_nat_gateway
\* raises, f = 2 when the nat_gateway_deleted waiter raises WaiterError; rel is
\* the outcome of release_address, whose error is reported and ignored.
delete_nat_gateways_mut(nt, nats, f, rel) ==
  IF nats = <<>> THEN [net |-> nt, calls |-> <<>>, ret |-> "True", warned |-> FALSE]
  ELSE IF f = 1 THEN [net |-> nt, calls |-> <<"delete_nat_gateway">>, ret |-> "False", warned |-> FALSE]
  ELSE IF f = 2 THEN [net |-> nt \ Range(nats),
                      calls |-> Repeat("delete_nat_gateway", Len(nats)), ret |-> "raised", warned |-> FALSE]
  ELSE [net |-> nt \ Range(nats), calls |-> Repeat("delete_nat_gateway", Len(nats)),
        ret |-> "True", warned |-> FALSE]

delete_nat_gateways(nt, nats, f, rel) ==
  IF nats = <<>> THEN [net |-> nt, calls |-> <<>>, ret |-> "True", warned |-> FALSE]
  ELSE IF f = 1 THEN [net |-> nt, calls |-> <<"delete_nat_gateway">>, ret |-> "False", warned |-> FALSE]
  ELSE
  LET elastic_ips == {r \in nt : r.kind = "eip" /\ \E g \in Range(nats) : g.vpc = r.vpc}
      n1 == nt \ Range(nats)
      ks == Repeat("delete_nat_gateway", Len(nats))
  IN
  IF f = 2 THEN [net |-> n1, calls |-> ks, ret |-> "raised", warned |-> FALSE]
  ELSE [net |-> IF rel THEN n1 \ elastic_ips ELSE n1,
        calls |-> ks \o Repeat("release_address", Cardinality(elastic_ips)),
        ret |-> "True", warned |-> ~rel /\ elastic_ips # {}]

DeleteNatGateways ==
  /\ VpcStep("NAT Gateways")
  /\ \E f \in 0..2, rel \in BOOLEAN :
       LET r == delete_nat_gateways(net, loc.vpc_resources.nat_gateways, f, rel) IN
       /\ net' = r.net
       /\ calls' = calls \o r.calls
       /\ warnings' = IF r.warned THEN warnings \cup {"release_address"} ELSE warnings
       /\ IF r.ret = "raised" THEN StepRaise(VpcSteps)
          ELSE StepReturn(r.ret = "True", VpcSteps)
  /\ UNCHANGED <<prog, runs, budget, cloud, instances, lbVpc, asgVpc, files, files0, confirmation, check_errors>>

\* A loop of the VPC destroyer that deletes the listed items one by one inside
\* one try block; f is the position at which a call raises (0: none).
DeleteListed(nt, items, f, call) ==
  LET done == IF f = 0 THEN Len(items) ELSE f - 1
  IN [net |-> nt \ {items[i] : i \in 1..done},
      calls |-> Repeat(call, IF f = 0 THEN Len(items) ELSE f),
      ret |-> f = 0]

DeleteRouteTables ==
  /\ VpcStep("Route Tables")
  /\ \E f \in 0..Len(loc.vpc_resources.route_tables) :
       LET r == DeleteListed(net, loc.vpc_resources.route_tables, f, "delete_route_table") IN
       /\ net' = r.net
       /\ calls' = calls \o r.calls
       /\ StepReturn(r.ret, VpcSteps)
  /\ UNCHANGED <<prog, runs, budget, cloud, instances, lbVpc, asgVpc, files, files0, confirmation, check_errors, warnings>>

DeleteSecurityGroups ==
  /\ VpcStep("Security Groups")
  /\ \E f \in 0..Len(loc.vpc_resources.security_groups) :
       LET r == DeleteListed(net, loc.vpc_resources.security_groups, f,
                             "delete_security_group") IN
       /\ net' = r.net
       /\ calls' = calls \o r.calls
       /\ StepReturn(r.ret, VpcSteps)
  /\ UNCHANGED <<prog, runs, budget, cloud, instances, lbVpc, asgVpc, files, files0, confirmation, check_errors, warnings>>

DeleteSubnets ==
  /\ VpcStep("Subnets")
  /\ \E f \in 0..Len(loc.vpc_resources.subnets) :
       LET r == DeleteListed(net, loc.vpc_resources.subnets, f, "delete_subnet") IN
       /\ net' = r.net
       /\ calls' = calls \o r.calls
       /\ StepReturn(r.ret, VpcSteps)
  /\ UNCHANGED <<prog, runs, budget, cloud, instances, lbVpc, asgVpc, files, files0, confirmation, check_errors, warnings>>

\* detach_and_delete_internet_gateways for the VPC's one gateway: f = 1 when
\* detach_internet_gateway raises, f = 2 when delete_internet_gateway does.
DetachAndDeleteInternetGateways ==
  /\ VpcStep("Internet Gateways")
  /\ IF loc.vpc_resources.internet_gateways = <<>>
       THEN /\ StepReturn(TRUE, VpcSteps)
            /\ UNCHANGED <<calls, net>>
       ELSE \E f \in 0..2 :
              LET igw == loc.vpc_resources.internet_gateways[1] IN
              /\ calls' = calls \o (IF f = 1 THEN <<"detach_internet_gateway">>
                                    ELSE <<"detach_internet_gateway",
                                           "delete_internet_gateway">>)
              /\ net' = IF f = 1 THEN net
                        ELSE IF f = 2
                          THEN (net \ {igw}) \cup {NR("igw_detached", igw.vpc, igw.n)}
                        ELSE net \ {igw}
              /\ StepReturn(f = 0, VpcSteps)
  /\ UNCHANGED <<prog, runs, budget, cloud, instances, lbVpc, asgVpc, files, files0, confirmation, check_errors, warnings>>

\* delete_vpc: raises when the environment says so, when the VPC does not
\* exist, or while something in the VPC still depends on it.
DeleteVpc ==
  /\ VpcStep("VPC")
  /\ \E ok \in BOOLEAN :
       LET vpc == NR("vpc", loc.vpc_id, 1)
           dependents == {r \in net : r.vpc = loc.vpc_id /\
                            r.kind \in {"subnet", "igw", "nat", "rt", "sg"}}
           deleted == ok /\ vpc \in net /\ dependents = {}
       IN
       /\ calls' = Append(calls, "delete_vpc")
       /\ net' = IF deleted THEN net \ {vpc} ELSE net
       /\ StepReturn(deleted, VpcSteps)
  /\ UNCHANGED <<prog, runs, budget, cloud, instances, lbVpc, asgVpc, files, files0, confirmation, check_errors, warnings>>

\* After the last step: the infrastructure file is removed if it exists; a
\* failing os.remove is reported and ignored.
RemoveInfrastructureFile ==
  /\ pc = "cleanup"
  /\ prog = "vpc_destroy"
  /\ \E rmOk \in BOOLEAN :
       /\ files' = IF rmOk THEN [files EXCEPT ![VpcFile] = NoFile] ELSE files
       /\ warnings' = IF ~rmOk /\ files[VpcFile] # NoFile
                       THEN warnings \cup {"os.remove"} ELSE warnings
  /\ Finish("True")
  /\ UNCHANGED <<prog, runs, budget, cloud, instances, lbVpc, asgVpc, net, files0, calls, trace,
                 confirmation, check_errors>>

VpcNext ==
  \/ StartVpcDeploy
  \/ CreateVpc
  \/ CreateInternetGateway
  \/ CreateSubnets
  \/ CreateRouteTables
  \/ CreateSecurityGroups
  \/ StartVpcDestroy
  \/ TerminateInstances
  \/ DeleteVpcLoadBalancers
  \/ DeleteVpcEndpoints
  \/ DeleteNatGateways
  \/ DeleteRouteTables
  \/ DeleteSecurityGroups
  \/ DeleteSubnets
  \/ DetachAndDeleteInternetGateways
  \/ DeleteVpc
  \/ RemoveInfrastructureFile

\* The keys the backend deployment reads from the infrastructure info it is
\* handed (security_groups is then indexed by MERN-Backend-SG and MERN-ALB-SG).
InfoKeysRead == {"vpc_id", "public_subnets", "security_groups"}

\* deploy_all_infrastructure.py: the module's third import names a class
\* asg_deployment.py does not define, so the script ends with ImportError
\* before main is defined; nothing of main runs.
RunDeployAll ==
  /\ Launch("deploy_all")
  /\ confirmation' = NotAsked
  /\ check_errors' = {}
  /\ result' = "raised"
  /\ hist' = Append(hist, [prog |-> "deploy_all", result |-> "raised",
                           confirm |-> FALSE, file |-> ""])
  /\ UNCHANGED <<pc, cloud, instances, lbVpc, asgVpc, net, files, loc>>

Next == BackendNext \/ VpcNext \/ RunDeployAll

\* All scripts.
Spec == Init /\ [][Next]_vars

\* The backend scripts alone, the network scripts alone.
SpecBackend == InitWith(MaxBackendRuns) /\ [][BackendNext]_vars

SpecVpc == InitWith(MaxVpcRuns) /\ [][VpcNext]_vars

\* ------------------------------------------- user data of the launch template
\* Passes of the three retry loops: for i in {1..5}, {1..3}, {1..3}.
LoginAttempts == 5
PullAttempts == 3
ComposeAttempts == 3

\* A command the script ran and its exit status.
Sh(cmd, ok) == [step |-> cmd, ret |-> IF ok THEN "0" ELSE "1", polled |-> FALSE]

\* One pass of `for i in {1..n}; do if cmd; then OK=true; break; else sleep;
\* fi; done`: the flag after the pass, the next value of i, and whether the
\* loop is left.
RetryPass_mut(i, n, ok) ==
  [flag |-> ok, i |-> IF i = n THEN i ELSE i + 1, left |-> i = n]

RetryPass(i, n, ok) ==
  [flag |-> ok, i |-> IF ok \/ i = n THEN i ELSE i + 1, left |-> ok \/ i = n]

\* The condition of the pull loop: docker pull hs && docker pull ps; the
\* second pull runs only when the first succeeded.
PullBoth_mut(hs, ps) == hs

PullBoth(hs, ps) == hs /\ ps

PullCommands(hs, ps) ==
  IF hs THEN <<Sh("docker pull hs", TRUE), Sh("docker pull ps", ps)>>
  ELSE <<Sh("docker pull hs", FALSE)>>

UserDataUnchanged ==
  UNCHANGED <<prog, runs, budget, cloud, instances, lbVpc, asgVpc, net, files,
              files0, calls, confirmation, check_errors, warnings>>

\* The script ends (exit, set -e, or its last line) with the given status.
ExitScript(code) ==
  /\ pc' = "idle"
  /\ result' = code
  /\ hist' = Append(hist, [prog |-> prog, result |-> code, confirm |-> FALSE,
                           file |-> ""])

\* An instance of the group boots and cloud-init starts the script.
BootInstance ==
  /\ Start("user_data", "install")
  /\ loc' = NoLoc
  /\ confirmation' = NotAsked
  /\ check_errors' = {}
  /\ UNCHANGED <<cloud, instances, lbVpc, asgVpc, net, files, hist>>

\* Package updates, Docker, AWS CLI and docker-compose installation under
\* set -e: the first failing command ends the script.
InstallPackages ==
  /\ pc = "install"
  /\ \E ok \in BOOLEAN :
       /\ trace' = Append(trace, Sh("install", ok))
       /\ IF ok
          THEN /\ pc' = "ecr_login"
               /\ loc' = [loc EXCEPT !.boot.i = 1]
               /\ UNCHANGED <<result, hist>>
          ELSE ExitScript("1") /\ UNCHANGED loc
  /\ UserDataUnchanged

\* One pass of the ECR login loop.
EcrLogin ==
  /\ pc = "ecr_login"
  /\ \E ok \in BOOLEAN :
       LET r == RetryPass(loc.boot.i, LoginAttempts, ok)
       IN /\ trace' = Append(trace, Sh("docker login", ok))
          /\ loc' = [loc EXCEPT !.boot.i = r.i, !.boot.ECR_LOGIN_SUCCESS = r.flag]
          /\ pc' = IF r.left THEN "ecr_checked" ELSE "ecr_login"
  /\ UNCHANGED <<result, hist>>
  /\ UserDataUnchanged

\* The test after the login loop, then the compose file is written.
WriteComposeFile ==
  /\ pc = "ecr_checked"
  /\ IF ~loc.boot.ECR_LOGIN_SUCCESS
     THEN ExitScript("1") /\ UNCHANGED <<trace, loc>>
     ELSE \E ok \in BOOLEAN :
            /\ trace' = Append(trace, Sh("write docker-compose.yml", ok))
            /\ IF ok
               THEN /\ pc' = "pull"
                    /\ loc' = [loc EXCEPT !.boot.i = 1]
                    /\ UNCHANGED <<result, hist>>
               ELSE ExitScript("1") /\ UNCHANGED loc
  /\ UserDataUnchanged

\* One pass of the image pull loop.
PullImages ==
  /\ pc = "pull"
  /\ \E hs, ps \in BOOLEAN :
       LET r == RetryPass(loc.boot.i, PullAttempts, PullBoth(hs, ps))
       IN /\ trace' = trace \o PullCommands(hs, ps)
          /\ loc' = [loc EXCEPT !.boot.i = r.i, !.boot.PULL_SUCCESS = r.flag]
          /\ pc' = IF r.left THEN "pull_checked" ELSE "pull"
  /\ UNCHANGED <<result, hist>>
  /\ UserDataUnchanged

\* The test after the pull loop.
CheckPull ==
  /\ pc = "pull_checked"
  /\ IF ~loc.boot.PULL_SUCCESS
     THEN ExitScript("1") /\ UNCHANGED loc
     ELSE /\ pc' = "compose_up"
          /\ loc' = [loc EXCEPT !.boot.i = 1]
          /\ UNCHANGED <<result, hist>>
  /\ UNCHANGED trace
  /\ UserDataUnchanged

\* One pass of the docker-compose up -d loop.
ComposeUp ==
  /\ pc = "compose_up"
  /\ \E ok \in BOOLEAN :
       LET r == RetryPass(loc.boot.i, ComposeAttempts, ok)
       IN /\ trace' = Append(trace, Sh("docker-compose up", ok))
          /\ loc' = [loc EXCEPT !.boot.i = r.i, !.boot.COMPOSE_SUCCESS = r.flag]
          /\ pc' = IF r.left THEN "compose_checked" ELSE "compose_up"
  /\ UNCHANGED <<result, hist>>
  /\ UserDataUnchanged

\* The test after the compose loop, then the CloudWatch agent, the helper
\* scripts and the final verification, all under set -e.
ConfigureMonitoring ==
  /\ pc = "compose_checked"
  /\ IF ~loc.boot.COMPOSE_SUCCESS
     THEN ExitScript("1") /\ UNCHANGED <<trace, loc>>
     ELSE \E ok \in BOOLEAN :
            /\ trace' = Append(trace, Sh("monitoring", ok))
            /\ IF ok
               THEN pc' = "mark" /\ UNCHANGED <<result, hist>>
               ELSE ExitScript("1")
            /\ UNCHANGED loc
  /\ UserDataUnchanged

\* echo ... | sudo tee /var/log/user-data-success.log, then the last lines.
WriteSuccessLog ==
  /\ pc = "mark"
  /\ \E ok \in BOOLEAN :
       /\ trace' = Append(trace, Sh("tee user-data-success.log", ok))
       /\ loc' = [loc EXCEPT !.boot.success_log = ok]
       /\ ExitScript(IF ok THEN "0" ELSE "1")
  /\ UserDataUnchanged

UserDataNext ==
  \/ BootInstance
  \/ InstallPackages
  \/ EcrLogin
  \/ WriteComposeFile
  \/ PullImages
  \/ CheckPull
  \/ ComposeUp
  \/ ConfigureMonitoring
  \/ WriteSuccessLog

\* The instances of the group boot one after the other.
SpecUserData == InitWith(DesiredCapacity) /\ [][UserDataNext]_vars

\* ------------------------------------------------------- lambda_mongo_backup
BACKUP_BUCKET == <<"mern-app-database-backups">>

\* The retention_days default of cleanup_old_backups.
retention_days == 30

\* The number of keys one list_objects_v2 call returns at most; the call is
\* made once, without MaxKeys and without a continuation token.
MaxKeys == 1000

\* An object of the bucket: its key (prefix and a number that grows with the
\* timestamp in the file name) and the days since its LastModified.
Obj(prefix, n, age) == [Key |-> <<prefix, n>>, age |-> age]

Bucket(objs) == [kind |-> "bucket", name |-> BACKUP_BUCKET, objects |-> objs]

\* The objects of the backup bucket, in key order.
Objects == (CHOOSE r \in cloud : r.kind = "bucket").objects

\* The number in the key of a backup written now: the timestamp in its name is
\* later than that of every stored object.
NextKey(objs) ==
  LET ns == {objs[k].Key[2] : k \in 1..Len(objs)}
  IN IF ns = {} THEN 1 ELSE 1 + CHOOSE n \in ns : \A m \in ns : m <= n

\* n backups of the given age with keys from..from+n-1.
Backups(from, n, age) == [k \in 1..n |-> Obj("backups/", from + k - 1, age)]

\* Bucket contents an invocation may find: up to two objects inside or outside
\* the prefix, on either side of the cutoff and exactly on it, and a backlog of
\* expired backups that fills one page of the listing, or one page and one
\* object more.
StoredObjects ==
  LET kinds == {<<"backups/", 1>>, <<"backups/", 30>>, <<"backups/", 31>>,
                <<"logs/", 31>>}
  IN {<<>>}
     \cup {<<Obj(a[1], 1, a[2])>> : a \in kinds}
     \cup {<<Obj(a[1], 1, a[2]), Obj(b[1], 2, b[2])>> : a \in kinds, b \in kinds}
     \cup {Backups(1, MaxKeys, 31), Backups(1, MaxKeys + 1, 31)}

\* response['Contents'] of list_objects_v2(Bucket, Prefix): the first MaxKeys
\* objects under the prefix, in key order.
list_objects_v2(objs, prefix) ==
  LET under == SelectSeq(objs, LAMBDA o : o.Key[1] = prefix)
  IN IF Len(under) <= MaxKeys THEN under ELSE SubSeq(under, 1, MaxKeys)

\* cleanup_old_backups: the objects left in the bucket. listOk and delOk say
\* whether the two S3 calls succeed; an exception is printed as a warning and
\* the function returns.
cleanup_old_backups(objs, days, listOk, delOk) ==
  LET Contents == list_objects_v2(objs, "backups/")
      old_objects == SelectSeq(Contents, LAMBDA o : o.age > days)
      keys == {old_objects[k].Key : k \in 1..Len(old_objects)}
  IN IF ~listOk \/ old_objects = <<>> \/ ~delOk THEN objs
     ELSE SelectSeq(objs, LAMBDA o : o.Key \notin keys)

\* The S3 calls cleanup_old_backups issues, with whether they raised.
CleanupCalls(objs, days, listOk, delOk) ==
  LET Contents == list_objects_v2(objs, "backups/")
      old_objects == SelectSeq(Contents, LAMBDA o : o.age > days)
      call(c, ok) == [step |-> c, ret |-> IF ok THEN "ok" ELSE "Exception",
                      polled |-> FALSE]
  IN IF ~listOk THEN <<call("list_objects_v2", FALSE)>>
     ELSE IF old_objects = <<>> THEN <<call("list_objects_v2", TRUE)>>
     ELSE <<call("list_objects_v2", TRUE), call("delete_objects", delOk)>>

\* The handler's except clauses: what it returns for an exception raised inside
\* its try block; "raised" would be an exception that leaves the handler.
HandlerExcept_mut(exc) ==
  IF exc = "ConnectionFailure"
  THEN [statusCode |-> 500, body |-> "error: MongoDB connection failed"]
  ELSE IF exc = "ClientError"
  THEN [statusCode |-> 500, body |-> "error: AWS S3 error"]
  ELSE [statusCode |-> 0, body |-> "raised"]

HandlerExcept(exc) ==
  IF exc = "ConnectionFailure"
  THEN [statusCode |-> 500, body |-> "error: MongoDB connection failed"]
  ELSE IF exc = "ClientError"
  THEN [statusCode |-> 500, body |-> "error: AWS S3 error"]
  ELSE [statusCode |-> 500, body |-> "error: Unexpected error"]

Success == [statusCode |-> 200, body |-> "message: Backup completed successfully"]

LambdaUnchanged ==
  UNCHANGED <<prog, runs, budget, instances, lbVpc, asgVpc, net, files, files0,
              calls, confirmation, check_errors, warnings>>

\* A step of the handler's try block and its outcome.
Did(name, out) == [step |-> name, ret |-> out, polled |-> FALSE]

\* lambda_handler returns.
Return(response) ==
  /\ pc' = "idle"
  /\ result' = IF response.statusCode = 200 THEN "200"
               ELSE IF response.statusCode = 500 THEN "500" ELSE "raised"
  /\ hist' = Append(hist, [prog |-> prog, result |-> result', confirm |-> FALSE,
                           file |-> ""])
  /\ loc' = [loc EXCEPT !.response = response]

\* A step inside the try block: it succeeds and the handler goes on, or it
\* raises one of excs and the matching except clause returns.
TryStep(name, excs, next) ==
  \E out \in {"ok"} \cup excs :
    /\ trace' = Append(trace, Did(name, out))
    /\ IF out = "ok"
       THEN pc' = next /\ UNCHANGED <<result, hist, loc>>
       ELSE Return(HandlerExcept(out))

\* The schedule rule or an operator invokes the function.
Invoke ==
  /\ Start("lambda", "dump")
  /\ loc' = NoLoc
  /\ confirmation' = NotAsked
  /\ check_errors' = {}
  /\ UNCHANGED <<cloud, instances, lbVpc, asgVpc, net, files, hist>>

\* MongoClient, list_collection_names and find on every collection.
ReadCollections ==
  /\ pc = "dump"
  /\ TryStep("read collections", {"ConnectionFailure", "Exception"}, "write")
  /\ UNCHANGED cloud
  /\ LambdaUnchanged

\* json.dump into the temporary file and the zip archive of it.
WriteBackupFile ==
  /\ pc = "write"
  /\ TryStep("write dump", {"Exception"}, "upload")
  /\ UNCHANGED cloud
  /\ LambdaUnchanged

\* upload_file of the archive under backups/<year>/<month>/.
UploadBackup ==
  /\ pc = "upload"
  /\ \E out \in {"ok", "ClientError", "Exception"} :
       /\ trace' = Append(trace, Did("upload_file", out))
       /\ IF out = "ok"
          THEN /\ pc' = "cleanup"
               /\ cloud' = {Bucket(Append(Objects,
                              Obj("backups/", NextKey(Objects), 0)))}
               /\ UNCHANGED <<result, hist, loc>>
          ELSE Return(HandlerExcept(out)) /\ UNCHANGED cloud
  /\ LambdaUnchanged

\* The call of cleanup_old_backups(s3_client, S3_BUCKET_NAME).
CleanupOldBackups ==
  /\ pc = "cleanup"
  /\ \E listOk, delOk \in BOOLEAN :
       /\ cloud' = {Bucket(cleanup_old_backups(Objects, retention_days, listOk,
                                               delOk))}
       /\ trace' = trace \o CleanupCalls(Objects, retention_days, listOk, delOk)
  /\ pc' = "close"
  /\ UNCHANGED <<result, hist, loc>>
  /\ LambdaUnchanged

\* client.close() and the success response.
CloseAndReturn ==
  /\ pc = "close"
  /\ \E out \in {"ok", "Exception"} :
       /\ trace' = Append(trace, Did("close", out))
       /\ Return(IF out = "ok" THEN Success ELSE HandlerExcept(out))
  /\ UNCHANGED cloud
  /\ LambdaUnchanged

LambdaNext ==
  \/ Invoke
  \/ ReadCollections
  \/ WriteBackupFile
  \/ UploadBackup
  \/ CleanupOldBackups
  \/ CloseAndReturn

\* The account when the function is invoked: the bucket holds what earlier
\* invocations and other writers left in it.
InitLambda ==
  /\ budget = MaxInvocations
  /\ pc = "idle"
  /\ prog = "none"
  /\ runs = 0
  /\ cloud \in {{Bucket(objs)} : objs \in StoredObjects}
  /\ instances = 0
  /\ lbVpc = 0
  /\ asgVpc = 0
  /\ net = {}
  /\ files = [f \in FileNames |-> NoFile]
  /\ files0 = files
  /\ calls = <<>>
  /\ trace = <<>>
  /\ confirmation = NotAsked
  /\ check_errors = {}
  /\ warnings = {}
  /\ result = "none"
  /\ hist = <<>>
  /\ loc = NoLoc

SpecLambda == InitLambda /\ [][LambdaNext]_vars

\* ------------------------------------------------------- deploy_lambda_backup
LAMBDA_ROLE_NAME == <<"MERNBackupLambdaRole">>
LAMBDA_POLICY_NAME == <<"MERNBackupLambdaPolicy">>
FUNCTION_NAME == <<"MERN-MongoDB-Backup">>
RULE_NAME == <<"MERN-Daily-Backup-Schedule">>

\* The schedule rule in state ENABLED, its target (the function) and the
\* function's resource policy statement AllowExecutionFromCloudWatch.
Rule == Res("rule", RULE_NAME \o <<"ENABLED">>)
Target == Res("target", RULE_NAME \o FUNCTION_NAME)
Permission == Res("permission", FUNCTION_NAME)

Has(cl, k) == \E r \in cl : r.kind = k

\* create_s3_bucket; f is the call that raises: 1 create_bucket,
\* 2 put_bucket_tagging, 3 put_bucket_versioning, 0 none.
create_s3_bucket(cl, headOk, f) ==
  IF Has(cl, "bucket") /\ headOk THEN [cloud |-> cl, ret |-> TRUE]
  ELSE IF Has(cl, "bucket") \/ f = 1 THEN [cloud |-> cl, ret |-> FALSE]
  ELSE [cloud |-> cl \cup {Bucket(<<>>)}, ret |-> f = 0]

\* create_lambda_role; f is the call that raises: 1 create_role,
\* 2 create_policy, 3 attach_role_policy, 0 none.
create_lambda_role(cl, getOk, f) ==
  LET role == Res("role", LAMBDA_ROLE_NAME)
      policy == Res("policy", LAMBDA_POLICY_NAME)
      attached == Res("attached", LAMBDA_ROLE_NAME)
  IN IF role \in cl /\ getOk THEN [cloud |-> cl, ret |-> TRUE]
     ELSE IF role \in cl \/ f = 1 THEN [cloud |-> cl, ret |-> FALSE]
     ELSE IF policy \in cl \/ f = 2 THEN [cloud |-> cl \cup {role}, ret |-> FALSE]
     ELSE IF f = 3 THEN [cloud |-> cl \cup {role, policy}, ret |-> FALSE]
     ELSE [cloud |-> cl \cup {role, policy, attached}, ret |-> TRUE]

\* deploy_lambda_function: update_function_code when get_function answers,
\* create_function when either of the two raised.
deploy_lambda_function(cl, getOk, updOk, createOk) ==
  LET fn == Res("function", FUNCTION_NAME)
  IN IF fn \in cl /\ getOk /\ updOk THEN [cloud |-> cl, ret |-> TRUE]
     ELSE IF fn \in cl \/ ~createOk THEN [cloud |-> cl, ret |-> FALSE]
     ELSE [cloud |-> cl \cup {fn}, ret |-> TRUE]

\* create_cloudwatch_rule; f is the call that raises: 1 put_rule,
\* 2 put_targets, 3 get_caller_identity or add_permission (add_permission
\* raises ResourceConflictException, which is ignored, when the statement
\* exists), 0 none. A ClientError is printed; the method returns nothing.
create_cloudwatch_rule(cl, f) ==
  IF f = 1 THEN cl
  ELSE IF f = 2 THEN cl \cup {Rule}
  ELSE IF f = 3 THEN cl \cup {Rule, Target}
  ELSE cl \cup {Rule, Target, Permission}

LambdaDeployUnchanged ==
  UNCHANGED <<prog, runs, budget, instances, lbVpc, asgVpc, net, files, files0,
              calls, confirmation, check_errors, warnings>>

\* A step of deploy_backup_solution returned r.ret and left the account r.cloud.
DeployStep(name, r, next) ==
  /\ cloud' = r.cloud
  /\ trace' = Append(trace,
                     [step |-> name, ret |-> IF r.ret THEN "True" ELSE "False",
                             polled |-> FALSE])
  /\ IF r.ret
     THEN pc' = next /\ UNCHANGED <<result, hist, loc>>
     ELSE Finish("False")

\* The operator starts deploy_lambda_backup.py.
StartLambdaDeploy ==
  /\ Start("lambda_deploy", "create_s3_bucket")
  /\ loc' = NoLoc
  /\ confirmation' = NotAsked
  /\ check_errors' = {}
  /\ UNCHANGED <<cloud, instances, lbVpc, asgVpc, net, files, hist>>

CreateS3Bucket ==
  /\ pc = "create_s3_bucket"
  /\ \E headOk \in BOOLEAN, f \in 0..3 :
       DeployStep("S3 bucket", create_s3_bucket(cloud, headOk, f),
                  "create_lambda_role")
  /\ LambdaDeployUnchanged

CreateLambdaRole ==
  /\ pc = "create_lambda_role"
  /\ \E getOk \in BOOLEAN, f \in 0..3 :
       DeployStep("IAM role", create_lambda_role(cloud, getOk, f),
                  "create_lambda_package")
  /\ LambdaDeployUnchanged

\* create_lambda_package: the zip archive, or None on any exception.
CreateLambdaPackage ==
  /\ pc = "create_lambda_package"
  /\ \E ok \in BOOLEAN :
       DeployStep("Lambda package", [cloud |-> cloud, ret |-> ok],
                  "deploy_lambda_function")
  /\ LambdaDeployUnchanged

DeployLambdaFunction ==
  /\ pc = "deploy_lambda_function"
  /\ \E getOk, updOk, createOk \in BOOLEAN :
       DeployStep("Lambda function",
                  deploy_lambda_function(cloud, getOk, updOk, createOk),
                  "create_cloudwatch_rule")
  /\ LambdaDeployUnchanged

\* The call of create_cloudwatch_rule, whose result is not looked at, and the
\* return of True.
CreateCloudWatchRule ==
  /\ pc = "create_cloudwatch_rule"
  /\ \E f \in 0..3 :
       /\ cloud' = create_cloudwatch_rule(cloud, f)
       /\ trace' = Append(trace, [step |-> "CloudWatch rule",
                                  ret |-> IF f = 0 THEN "None" ELSE "printed",
                                  polled |-> FALSE])
  /\ Finish("True")
  /\ LambdaDeployUnchanged

LambdaDeployNext ==
  \/ StartLambdaDeploy
  \/ CreateS3Bucket
  \/ CreateLambdaRole
  \/ CreateLambdaPackage
  \/ DeployLambdaFunction
  \/ CreateCloudWatchRule

SpecLambdaDeploy == InitWith(MaxLambdaDeploys) /\ [][LambdaDeployNext]_vars

\* ------------------------------------------------------------------ claims
\* C1 as the specification words it: in the backend teardown the target
\* groups and the launch template are deleted before the Auto Scaling Group is
\* scaled to zero, drained and deleted.
C1_SpecOrder ==
  prog = "asg_destroy" =>
    \A i, j \in 1..Len(calls) :
      (/\ calls[i] \in {"update_asg_zero", "delete_auto_scaling_group"}
       /\ calls[j] \in {"delete_target_group", "delete_launch_template"}) => j < i

\* C1, amended: the backend teardown first scales the Auto Scaling Group to
\* zero, waits for the drain and deletes the group, then deletes the load
\* balancers, then the target groups, then the launch template, then the IAM
\* role; while it waits for the drain nothing has been deleted yet.
C1_CodeOrder ==
  prog = "asg_destroy" =>
    LET rank(c) == IF c \in {"update_asg_zero", "delete_policy",
                              "delete_auto_scaling_group"} THEN 1
                   ELSE IF c = "delete_load_balancer" THEN 2
                   ELSE IF c = "delete_target_group" THEN 3
                   ELSE IF c = "delete_launch_template" THEN 4
                   ELSE 5
    IN /\ \A i, j \in 1..Len(calls) : i < j => rank(calls[i]) <= rank(calls[j])
       /\ pc = "drain" => calls = <<"update_asg_zero">>

C1_FullTeardown ==
  /\ prog = "asg_destroy"
  /\ pc = "idle"
  /\ result = "True"
  /\ {"update_asg_zero", "delete_auto_scaling_group", "delete_load_balancer",
      "delete_target_group", "delete_launch_template"} \subseteq Range(calls)

\* C2: after a successful backend deployment followed by a teardown run with
\* its default arguments that returned True, none of the deployed components
\* exists: group, scaling policy, launch template, load balancer, both target
\* groups, IAM role, instance profile.
C2_BackendRoundTrip ==
  (/\ pc = "idle"
   /\ Len(hist) >= 2
   /\ hist[Len(hist) - 1].prog = "asg_deploy"
   /\ hist[Len(hist) - 1].result = "True"
   /\ hist[Len(hist)].prog = "asg_destroy"
   /\ hist[Len(hist)].result = "True"
   /\ hist[Len(hist)].confirm
   /\ hist[Len(hist)].file = "States/Backend-Deploy-Info.json")
  => cloud \cap {Res("asg", ASG_NAME), Res("policy", POLICY_NAME),
                 Res("lt", TEMPLATE_NAME), Res("lb", ALB_NAME),
                 Res("tg", HELLO_TG), Res("tg", PROFILE_TG),
                 Res("role", <<"Ubuntu", "ECR", "CloudWatch", "Role">>),
                 Res("profile", <<"Ubuntu", "ECR", "CloudWatch", "Role">>)} = {}

\* C3: in the network teardown delete_vpc is called only after the steps for
\* instances, load balancers, endpoints, NAT gateways, route tables, security
\* groups, subnets and internet gateways ran in that order and each returned
\* True; it is the last call of the run.
C3_VpcDeletedLast ==
  (prog = "vpc_destroy" /\ "delete_vpc" \in Range(calls)) =>
    LET before == <<"EC2 Instances", "Load Balancers", "VPC Endpoints", "NAT Gateways",
                    "Route Tables", "Security Groups", "Subnets", "Internet Gateways">>
    IN /\ Len(trace) >= 8
       /\ \A i \in 1..8 : trace[i].step = before[i] /\ trace[i].ret = "True"
       /\ \A i \in 1..Len(calls) : calls[i] = "delete_vpc" <=> i = Len(calls)

C3_VpcDeleted ==
  /\ prog = "vpc_destroy"
  /\ pc = "idle"
  /\ result = "True"
  /\ "delete_vpc" \in Range(calls)
  /\ "delete_subnet" \in Range(calls)

C5_ConfirmationGate ==
  (prog \in {"asg_destroy", "vpc_destroy"} /\ result # "NotRun") =>
    LET confirm == IF pc = "idle" THEN hist[Len(hist)].confirm ELSE loc.confirm
    IN /\ (confirm /\ confirmation # "DELETE") =>
            /\ pc = "idle"
            /\ result = "False"
            /\ calls = <<>>
            /\ files = files0
       /\ ~confirm => confirmation = "<no prompt>"

C5_Cancelled ==
  /\ prog = "vpc_destroy"
  /\ confirmation = "delete"
  /\ result = "False"
  /\ files["States/VPC-Deploy-Info.json"] # NoFile

\* C6: in either destroyer a step that returned False is the last step run,
\* the function then returns False and leaves the state files as they were; a
\* state file is removed only after every step of the list returned True.
C6_FailStop ==
  prog \in {"asg_destroy", "vpc_destroy"} =>
    /\ \A i \in 1..Len(trace) :
         trace[i].ret = "False" =>
           /\ i = Len(trace)
           /\ pc = "idle"
           /\ result = "False"
           /\ files = files0
    /\ files # files0 =>
         /\ Len(trace) = IF prog = "asg_destroy" THEN 5 ELSE 9
         /\ \A i \in 1..Len(trace) : trace[i].ret = "True"

C6_StoppedAtFailedStep ==
  /\ prog = "vpc_destroy"
  /\ pc = "idle"
  /\ result = "False"
  /\ Len(trace) = 5
  /\ trace[5].ret = "False"
  /\ "delete_nat_gateway" \in Range(calls)
  /\ files["States/VPC-Deploy-Info.json"] # NoFile

\* C7: the drain wait of terminate_auto_scaling_groups polls at most 30 times,
\* whether a poll reports instances or raises; it is left as soon as a poll
\* reports zero instances or no group, and otherwise after the 30th poll; once
\* the wait is over the step issues delete_auto_scaling_group before it
\* returns.
C7_DrainWaitBounded ==
  /\ loc.polls <= 30
  /\ pc = "drain" => loc.polls < 30 /\ loc.last_poll \notin {"zero", "gone"}
  /\ pc = "delete_asg" =>
       /\ loc.polls >= 1
       /\ loc.last_poll \in {"zero", "gone"} \/ loc.polls = 30
  /\ prog = "asg_destroy" =>
       \A i \in 1..Len(trace) :
         trace[i].polled => "delete_auto_scaling_group" \in Range(calls)

C7_TimedOut ==
  /\ pc = "delete_asg"
  /\ loc.polls = 30
  /\ loc.last_poll = "raise"
  /\ instances > 0

C9_DeployReturnsAtFirstFailure ==
  (prog = "vpc_deploy" /\ pc = "idle") =>
    LET rank(c) == IF c = "create_vpc" THEN 1
                   ELSE IF c = "create_internet_gateway" THEN 2
                   ELSE IF c = "create_subnet" THEN 3
                   ELSE IF c = "create_security_group" THEN 5
                   ELSE 4
    IN /\ \A i, j \in 1..Len(calls) : i < j => rank(calls[i]) <= rank(calls[j])
       /\ result \in {"True", "False"}
       /\ result = "True" =>
            \A k \in {"vpc", "igw", "subnet", "rt", "nat", "sg"} :
              \E r \in net : r.vpc = Len(hist) /\ r.kind = k

\* C10: in deploy_all_infrastructure's main a failed VPC step ends the run
\* with False before the Lambda and ASG steps; after a successful VPC step the
\* Lambda step and then the ASG step are attempted whatever the Lambda step
\* returned, and main returns True exactly when the ASG step succeeded.
C10_DeployAllSteps ==
  (prog = "deploy_all" /\ pc = "idle") =>
    /\ Len(trace) >= 1
    /\ trace[1].step = "VPC"
    /\ trace[1].ret = "False" => Len(trace) = 1 /\ result = "False"
    /\ trace[1].ret = "True" =>
         /\ Len(trace) = 3
         /\ trace[2].step = "Lambda"
         /\ trace[3].step = "ASG"
         /\ result = "True" <=> trace[3].ret = "True"

\* C11: a complete deployment run whose cloud calls all succeed hands the ASG
\* step an infrastructure info carrying the VPC id, the public subnets and the
\* security groups (MERN-Backend-SG, MERN-ALB-SG) the step reads, and main
\* returns True.
C11_CompleteDeployment ==
  (prog = "deploy_all" /\ pc = "idle") =>
    /\ InfoKeysRead \subseteq DOMAIN get_infrastructure_info(NoLoc)
    /\ result = "True"

\* C12: the ECR login loop makes at most 5 attempts and none after a
\* successful one, and when 5 attempts failed the script exits with status 1
\* having run no image pull and no docker-compose up.
C12_EcrLoginRetry ==
  prog = "user_data" =>
    LET logins == SelectSeq(trace, LAMBDA e : e.step = "docker login")
        later == {"docker pull hs", "docker pull ps", "docker-compose up"}
    IN /\ Len(logins) <= 5
       /\ \A k \in 1..Len(logins) : logins[k].ret = "0" => k = Len(logins)
       /\ (Len(logins) = 5 /\ logins[5].ret = "1") =>
            /\ \A k \in 1..Len(trace) : trace[k].step \notin later
            /\ pc = "idle" => result = "1"
            /\ pc \in {"idle", "ecr_checked"}

\* C12 witness: the script has exited after five failed logins.
C12_FiveLoginsFailed ==
  /\ prog = "user_data" /\ pc = "idle" /\ result = "1"
  /\ Len(trace) = 6
  /\ \A k \in 2..6 : trace[k] = Sh("docker login", FALSE)

\* C18: the success marker is written only in runs where a login attempt among
\* at most 5 succeeded, one pass among at most 3 pulled both images, and one
\* docker-compose up among at most 3 succeeded; and docker-compose up is never
\* run before both images were pulled in the same pass.
C18_SuccessLogOnlyAfterAll ==
  prog = "user_data" =>
    LET n(cmd) == Len(SelectSeq(trace, LAMBDA e : e.step = cmd))
        okAt(k, cmd) == trace[k] = Sh(cmd, TRUE)
        pulledBefore(k) ==
          \E j \in 1..(k - 2) :
            okAt(j, "docker pull hs") /\ okAt(j + 1, "docker pull ps")
    IN /\ loc.boot.success_log =>
            /\ n("docker login") <= 5 /\ n("docker pull hs") <= 3
            /\ n("docker-compose up") <= 3
            /\ \E k \in 1..Len(trace) : okAt(k, "docker login")
            /\ \E k \in 1..Len(trace) : okAt(k, "docker-compose up")
            /\ pulledBefore(Len(trace))
       /\ \A k \in 1..Len(trace) :
            trace[k].step = "docker-compose up" => pulledBefore(k + 1)

\* C18 witness: the marker was written in a run that needed a retry in every
\* loop.
C18_SuccessLogWritten ==
  /\ prog = "user_data" /\ pc = "idle" /\ result = "0" /\ loc.boot.success_log
  /\ \E k \in 1..Len(trace) : trace[k] = Sh("docker login", FALSE)
  /\ \E k \in 1..Len(trace) : trace[k] = Sh("docker pull ps", FALSE)
  /\ \E k \in 1..Len(trace) : trace[k] = Sh("docker-compose up", FALSE)

\* C13: lambda_handler lets no exception escape; it returns 200 only when the
\* dump was written and the upload succeeded; it returns 500 with an error
\* body when reading, writing, uploading or closing failed; and a failure
\* inside cleanup_old_backups leaves a 200 result a 200.
C13_HandlerResponses ==
  (prog = "lambda" /\ pc = "idle") =>
    LET ok(name) == \E k \in 1..Len(trace) : trace[k] = Did(name, "ok")
        failed == \E k \in 1..Len(trace) :
                    /\ trace[k].step \in {"read collections", "write dump",
                                          "upload_file", "close"}
                    /\ trace[k].ret # "ok"
    IN /\ result \in {"200", "500"}
       /\ result = "200" => ok("write dump") /\ ok("upload_file")
       /\ failed => /\ result = "500"
                    /\ loc.response.body \in {"error: MongoDB connection failed",
                          "error: AWS S3 error", "error: Unexpected error"}
       /\ ~failed => result = "200"

\* C13 witness: the handler returned 200 although a call inside
\* cleanup_old_backups raised.
C13_CleanupFailedStill200 ==
  /\ prog = "lambda" /\ pc = "idle" /\ result = "200"
  /\ \E k \in 1..Len(trace) :
       trace[k].step \in {"list_objects_v2", "delete_objects"} /\ trace[k].ret # "ok"

\* C14: after cleanup_old_backups has returned with no S3 call having raised,
\* no object under backups/ older than the cutoff is left in the bucket, for
\* any number of stored backups.
C14_AllExpiredDeleted ==
  (prog = "lambda" /\ pc = "close"
     /\ \A k \in 1..Len(trace) : trace[k].ret = "ok") =>
    \A k \in 1..Len(Objects) :
      ~(Objects[k].Key[1] = "backups/" /\ Objects[k].age > retention_days)

\* C15: whenever deploy_backup_solution has returned True, the rule
\* MERN-Daily-Backup-Schedule exists and is enabled, the deployed function is
\* its target, and the function's policy lets the rule invoke it.
C15_ScheduleInPlace ==
  (prog = "lambda_deploy" /\ pc = "idle" /\ result = "True") =>
    {Rule, Target, Permission, Res("function", FUNCTION_NAME)} \subseteq cloud

\* C17: delete_auto_scaling_group is issued for the group only after its
\* capacity was set to zero, the drain wait has ended (zero instances, no such
\* group, or 30 polls) and the deletion of its scaling policies was attempted;
\* and it is issued whether or not deleting the policies failed.
C17_GroupDeletedLast ==
  [][/\ pc = "delete_asg" =>
          /\ calls'[Len(calls')] = "delete_auto_scaling_group"
          /\ \A k \in 1..Len(calls') : calls'[k] = "delete_policy" => k < Len(calls')
     /\ (/\ Len(calls') > Len(calls)
         /\ calls'[Len(calls')] = "delete_auto_scaling_group") =>
          /\ pc = "delete_asg"
          /\ \E k \in 1..Len(calls) : calls[k] = "update_asg_zero"
          /\ \A k \in 1..Len(calls) : calls[k] # "delete_auto_scaling_group"
          /\ loc.polls >= 1
          /\ loc.last_poll \in {"zero", "gone"} \/ loc.polls = 30]_vars

\* C17 witness: the group was deleted in a run that could not delete its
\* scaling policies.
C17_DeletedDespitePolicyError ==
  /\ prog = "asg_destroy"
  /\ "delete_policy" \in warnings
  /\ Len(trace) >= 1 /\ trace[1] = [step |-> "Auto Scaling Groups", ret |-> "True",
                                    polled |-> TRUE]
  /\ "delete_auto_scaling_group" \in Range(calls)
  /\ Res("asg", ASG_NAME) \notin cloud

\* C16: when a teardown run driven by the state file has deleted the Auto
\* Scaling Group and then failed at a later step, a second run with the same
\* state file gets past the Auto Scaling Groups step.
C16_RerunGetsPastGroups ==
  [][(/\ pc = "idle" /\ prog = "asg_destroy" /\ result = "False"
      /\ hist[Len(hist)].file = UbuntuBackendFile
      /\ files0[UbuntuBackendFile].kind = "backend"
      /\ Len(trace) >= 2
      /\ trace[1].step = "Auto Scaling Groups" /\ trace[1].ret = "True"
      /\ "delete_auto_scaling_group" \in Range(calls)
      /\ files[UbuntuBackendFile] = files0[UbuntuBackendFile]
      /\ pc' = "step" /\ prog' = "asg_destroy"
      /\ loc'.backend_file = UbuntuBackendFile)
     => can_scale_down(cloud', loc'.resources.asg_names)]_vars

====
